---- MODULE Spec2Model ----
(***************************************************************************)
(* Badge editing (src/app/routes/badges/$id/edit.tsx) and tournament team  *)
(* creation / registration header                                          *)
(* (src/app/features/tournament/queries/createTeam.server.ts).             *)
(*                                                                         *)
(* The module holds five independent state machines over one variable      *)
(* list; each specification moves its own variables and leaves the others  *)
(* at their initial value:                                                 *)
(*   SpecManagers        the Managers editor component                    *)
(*   SpecOwners          the Owners editor component                      *)
(*   SpecAction          the edit-badge action (server request handler)   *)
(*   SpecCreateTeam      the createTeam transaction                       *)
(*   SpecRegisterHeader  the RegisterHeader component's three handlers    *)
(*                                                                         *)
(* The action reads and writes the store only in the synchronous block of  *)
(* its switch (edit.tsx:39-62) and createTeam is a synchronous function,   *)
(* so the store accesses of overlapping requests happen one request after  *)
(* the other; SpecAction and SpecCreateTeam take the requests in every     *)
(* order.  Display names (discordFullName) take part in no computation     *)
(* modelled here and are left out of the records.                          *)
(***************************************************************************)
EXTENDS Integers, Sequences, FiniteSets, TLC

VARIABLES
  dataManagers,   \* Managers: data.managers (ids, loader data, read-only)
  managers,       \* Managers: React state `managers` (ids, in list order)
  dataOwners,     \* Owners: data.owners ([id, count] records, read-only)
  owners,         \* Owners: React state `owners` ([id, count] records)
  ownersRender,   \* Owners: "ok", or "RangeError" when the render threw
  ownerIdsInput,  \* Owners: value of the hidden input "ownerIds" (decoded JSON)
  badgeManagers,  \* action: stored manager ids of each badge (db.badges)
  badgeOwners,    \* action: stored owner count of each user, per badge (db.badges)
  request,        \* action: the request being handled and the handler's position
  TournamentTeam,        \* createTeam: committed rows of "TournamentTeam"
  TournamentTeamMember,  \* createTeam: committed rows of "TournamentTeamMember"
  createTeamCalls,       \* createTeam: outcome of every call made so far
  sending,        \* RegisterHeader: React state `sending`
  handler,        \* RegisterHeader: the handler being run and its position
  teamsData,      \* RegisterHeader: `data` of useLadderTeams, as own-team role
  serverTeams,    \* RegisterHeader: the server's registration, as own-team role
  effects         \* RegisterHeader: mutate() and toast() calls made, in order

managersVars == <<dataManagers, managers>>
ownersVars == <<dataOwners, owners, ownersRender, ownerIdsInput>>
actionVars == <<badgeManagers, badgeOwners, request>>
teamVars == <<TournamentTeam, TournamentTeamMember, createTeamCalls>>
headerVars == <<sending, handler, teamsData, serverTeams, effects>>
vars == <<managersVars, ownersVars, actionVars, teamVars, headerVars>>

----------------------------------------------------------------------------
(* Bounds and program constants *)

\* number of distinct user ids the editors can pick from
MaxUser == 3
\* longest original owner list drawn in Init
MaxOrigOwners == 2
\* largest count an original owner starts with
MaxOrigCount == 2
\* max={100} of the owner count input
MaxCount == 100

UserIds == 1..MaxUser

----------------------------------------------------------------------------
(* Array helpers, as the JavaScript array methods compute them *)

RECURSIVE UniqueSeqs(_, _)
\* every list of at most n distinct elements of S
UniqueSeqs(S, n) ==
  IF n = 0 \/ S = {} THEN {<<>>}
  ELSE {<<>>} \cup UNION {{<<x>> \o t : t \in UniqueSeqs(S \ {x}, n - 1)} : x \in S}

\* the lists of UniqueSeqs(S, n) whose elements ascend
AscendingSeqs(S, n) ==
  {s \in UniqueSeqs(S, n) : \A i, j \in DOMAIN s : i < j => s[i] < s[j]}

Range(s) == {s[i] : i \in DOMAIN s}

\* arr.some((x) => x === v) on a list of ids
SomeId(s, v) == \E i \in DOMAIN s : s[i] = v

----------------------------------------------------------------------------
(* Managers component, edit.tsx:102-172 *)

\* React.useState(data.managers.map(...)), edit.tsx:103-108; the loader's
\* managers are rows of distinct users
ManagersInit ==
  /\ dataManagers \in UniqueSeqs(UserIds, MaxUser)
  /\ managers = dataManagers
  /\ dataOwners = <<>> /\ owners = <<>>
  /\ ownersRender = "ok" /\ ownerIdsInput = <<>>
  /\ badgeManagers = <<>> /\ badgeOwners = <<>> /\ request = <<>>
  /\ TournamentTeam = {} /\ TournamentTeamMember = {} /\ createTeamCalls = <<>>
  /\ sending = FALSE /\ handler = <<>> /\ teamsData = "none"
  /\ serverTeams = "none" /\ effects = <<>>

\* faulty variant of ManagersAmountOfChanges: the .concat of the removed managers
\* is left out
ManagersAmountOfChangesAddedOnly(ms, oms) ==
  LET added(m) == ~SomeId(oms, m)
  IN Len(SelectSeq(ms, added))

\* .filter(...).map(id).concat(...filter...).length, edit.tsx:110-119
ManagersAmountOfChanges(ms, oms) ==
  LET added(m) == ~SomeId(oms, m)
      removed(om) == ~SomeId(ms, om)
  IN Len(SelectSeq(ms, added) \o SelectSeq(oms, removed))

\* onClick of the delete button of `manager`, edit.tsx:133-135
DeleteManager(manager) ==
  /\ SomeId(managers, manager)
  /\ managers' = SelectSeq(managers, LAMBDA m : m # manager)
  /\ UNCHANGED <<dataManagers, ownersVars, actionVars, teamVars, headerVars>>

\* UserCombobox onChange, edit.tsx:144-152; the combobox offers no id of
\* userIdsToOmit (the ids already in `managers`)
AddManager(user) ==
  /\ ~SomeId(managers, user)
  /\ managers' = Append(managers, user)
  /\ UNCHANGED <<dataManagers, ownersVars, actionVars, teamVars, headerVars>>

ManagersNext ==
  \/ \E manager \in UserIds : DeleteManager(manager)
  \/ \E user \in UserIds : AddManager(user)

----------------------------------------------------------------------------
(* Owners component, edit.tsx:174-255 *)

\* the numbers Number(e.target.value) is drawn from: a number input accepts
\* any typed number, min/max only mark it invalid
CountInputs == {-1, 0, MaxCount, MaxCount + 1}

\* every list of [id, count] records over the id lists `idLists`
OwnerLists(idLists, counts) ==
  UNION {{[i \in DOMAIN ids |-> [id |-> ids[i], count |-> cs[i]]] :
            cs \in [DOMAIN ids -> counts]} : ids \in idLists}

\* data.owners.find((o) => o.id === id): index of the first match, 0 for
\* undefined
FindOwner(os, id) ==
  IF \E i \in DOMAIN os : os[i].id = id
  THEN CHOOSE i \in DOMAIN os :
         os[i].id = id /\ \A j \in DOMAIN os : os[j].id = id => i <= j
  ELSE 0

\* faulty variant of HasChanged: the count comparison is left out
HasChangedNewOnly(owner, os) == FindOwner(os, owner.id) = 0

\* body of the reduce callback, edit.tsx:184-185
HasChanged(owner, os) ==
  LET oldOwner == FindOwner(os, owner.id)
  IN oldOwner = 0 \/ owner.count # os[oldOwner].count

RECURSIVE OwnersReduce(_, _, _)
\* owners.reduce((acc, owner) => acc + (hasChanged ? 1 : 0), acc)
OwnersReduce(ws, os, acc) ==
  IF ws = <<>> THEN acc
  ELSE OwnersReduce(Tail(ws), os, acc + (IF HasChanged(Head(ws), os) THEN 1 ELSE 0))

\* amountOfChanges of Owners, edit.tsx:183-187
OwnersAmountOfChanges(ws, os) == OwnersReduce(ws, os, 0)

\* new Array(n) throws RangeError: Invalid array length for a negative n
\* (and for n > 2^32 - 1, beyond every count drawn here)
InvalidArrayLength(n) == n < 0

\* faulty variant of FilledArray: one copy short
FilledArrayOneShort(id, count) == [k \in 1..(count - 1) |-> id]

\* new Array(count).fill(null).map(() => id), edit.tsx:254
FilledArray(id, count) == [k \in 1..count |-> id]

RECURSIVE FlatMapOwners(_)
FlatMapOwners(ows) ==
  IF ows = <<>> THEN <<>>
  ELSE FilledArray(Head(ows).id, Head(ows).count) \o FlatMapOwners(Tail(ows))

\* whether countArrayToDuplicatedIdsArray(ows) throws
CountArrayThrows(ows) == \E i \in DOMAIN ows : InvalidArrayLength(ows[i].count)

\* countArrayToDuplicatedIdsArray, edit.tsx:251-255 (when it does not throw)
countArrayToDuplicatedIdsArray(ows) == FlatMapOwners(ows)

\* the render after setOwners(ows): the hidden input's value is computed
\* during it, edit.tsx:232-236; a throw unmounts the component, whose state
\* is discarded
OwnersRendered(ows) ==
  IF CountArrayThrows(ows)
  THEN owners' = <<>> /\ ownersRender' = "RangeError" /\ ownerIdsInput' = <<>>
  ELSE /\ owners' = ows
       /\ ownersRender' = "ok"
       /\ ownerIdsInput' = countArrayToDuplicatedIdsArray(ows)

\* disabled={amountOfChanges === 0} of the OWNERS button, edit.tsx:241
OwnersSubmitDisabled == OwnersAmountOfChanges(owners, dataOwners) = 0

\* React.useState(data.owners.map(...)), edit.tsx:175-181, and the first
\* render; the loader's owners are one row per user, each with a count >= 1
\* (drawn here in ascending order of id)
OwnersInit ==
  /\ dataOwners \in OwnerLists(AscendingSeqs(UserIds, MaxOrigOwners), 1..MaxOrigCount)
  /\ owners = dataOwners
  /\ ownersRender = "ok"
  /\ ownerIdsInput = countArrayToDuplicatedIdsArray(dataOwners)
  /\ dataManagers = <<>> /\ managers = <<>>
  /\ badgeManagers = <<>> /\ badgeOwners = <<>> /\ request = <<>>
  /\ TournamentTeam = {} /\ TournamentTeamMember = {} /\ createTeamCalls = <<>>
  /\ sending = FALSE /\ handler = <<>> /\ teamsData = "none"
  /\ serverTeams = "none" /\ effects = <<>>

\* onChange of the count input of `owner`, edit.tsx:205-213
ChangeOwnerCount(owner, value) ==
  /\ ownersRender = "ok"
  /\ \E i \in DOMAIN owners : owners[i].id = owner
  /\ LET next == [i \in DOMAIN owners |->
                   IF owners[i].id = owner
                   THEN [owners[i] EXCEPT !.count = value]
                   ELSE owners[i]]
     IN OwnersRendered(next)
  /\ UNCHANGED <<dataOwners, managersVars, actionVars, teamVars, headerVars>>

\* UserCombobox onChange, edit.tsx:221-229; the combobox offers no id of
\* userIdsToOmit (the ids already in `owners`)
AddOwner(user) ==
  /\ ownersRender = "ok"
  /\ \A i \in DOMAIN owners : owners[i].id # user
  /\ LET next == Append(owners, [id |-> user, count |-> 1])
     IN OwnersRendered(next)
  /\ UNCHANGED <<dataOwners, managersVars, actionVars, teamVars, headerVars>>

OwnersNext ==
  \/ \E owner \in UserIds, value \in CountInputs : ChangeOwnerCount(owner, value)
  \/ \E user \in UserIds : AddOwner(user)

----------------------------------------------------------------------------
(* The edit-badge action, edit.tsx:20-63 *)

BadgeIds == {1, 2}

\* users with the higher-privilege role
Admins == {1}

\* session of a request: a user id, or NoUser when nobody is logged in
NoUser == 0

\* a form field: absent, text that is no JSON, or the JSON text of an array
\* of ids
AbsentField == [kind |-> "absent", value |-> <<>>]
MalformedField == [kind |-> "malformed", value |-> <<>>]
ArrayField(ids) == [kind |-> "array", value |-> ids]

ManagerIdsFields ==
  {AbsentField, MalformedField, ArrayField(<<>>), ArrayField(<<2>>),
   ArrayField(<<2, 2>>)}

OwnerIdsFields ==
  {MalformedField, ArrayField(<<2>>), ArrayField(<<3, 2, 3>>),
   ArrayField(FilledArray(2, MaxCount + 1))}

FormActions == {"MANAGERS", "OWNERS", "DELETE"}

\* params["id"] of the route, as text
IdParams == {"1", "2", "abc"}

NoData == [ok |-> FALSE, _action |-> "", managerIds |-> <<>>, ownerIds |-> <<>>]
NoCall == [op |-> "none", badgeId |-> 0, ids |-> <<>>]

FreeRequest ==
  [pc |-> "free", _action |-> "", managerIds |-> AbsentField,
   ownerIds |-> AbsentField, idParam |-> "", session |-> NoUser,
   data |-> NoData, badgeId |-> 0, response |-> "", call |-> NoCall]

\* safeJSONParse of ~/utils/zod: the parsed value, or undefined (ok = FALSE)
\* for text that is no JSON and for an absent field
safeJSONParse(field) ==
  IF field.kind = "array"
  THEN [ok |-> TRUE, value |-> field.value]
  ELSE [ok |-> FALSE, value |-> <<>>]

\* noDuplicates of ~/utils/zod
noDuplicates(arr) == \A i, j \in DOMAIN arr : arr[i] = arr[j] => i = j

\* faulty variant of ManagerIdsSchema: without .refine(noDuplicates)
ManagerIdsSchemaNoRefine(field) == safeJSONParse(field).ok

\* z.preprocess(safeJSONParse, z.array(id).refine(noDuplicates)), edit.tsx:23
ManagerIdsSchema(field) ==
  LET parsed == safeJSONParse(field)
  IN parsed.ok /\ noDuplicates(parsed.value)

\* z.preprocess(safeJSONParse, z.array(id)), edit.tsx:27
OwnerIdsSchema(field) == safeJSONParse(field).ok

\* editBadgeActionSchema.parse, edit.tsx:20-29: the first member of the
\* union that accepts the form; an object schema drops the keys it does not
\* name
editBadgeActionSchema(form) ==
  IF form._action = "MANAGERS" /\ ManagerIdsSchema(form.managerIds)
  THEN [ok |-> TRUE, _action |-> "MANAGERS",
        managerIds |-> form.managerIds.value, ownerIds |-> <<>>]
  ELSE IF form._action = "OWNERS" /\ OwnerIdsSchema(form.ownerIds)
  THEN [ok |-> TRUE, _action |-> "OWNERS",
        managerIds |-> <<>>, ownerIds |-> form.ownerIds.value]
  ELSE NoData

\* z.preprocess(actualNumber, z.number()).parse(params["id"]), edit.tsx:36;
\* 0 stands for the parse throwing
ParseBadgeId(idParam) ==
  CASE idParam = "1" -> 1
    [] idParam = "2" -> 2
    [] OTHER -> 0

\* canEditBadgeManagers of ~/permissions
canEditBadgeManagers(user) == user \in Admins

\* canEditBadgeOwners of ~/permissions
canEditBadgeOwners(user, badgeManagerIds) ==
  user \in Admins \/ user \in badgeManagerIds

\* the argument of validate(...) in case "MANAGERS", edit.tsx:41
ManagersValidated(user) == canEditBadgeManagers(user)

\* faulty variant of OwnersValidated: the managers of every badge are read, not
\* those of badgeId
OwnersValidatedAnyBadge(user, badgeId) ==
  canEditBadgeOwners(user, UNION {badgeManagers[b] : b \in BadgeIds})

\* the argument of validate(...) in case "OWNERS", edit.tsx:47-52:
\* db.badges.managersByBadgeId(badgeId) reads the store during the call
OwnersValidated(user, badgeId) ==
  canEditBadgeOwners(user, badgeManagers[badgeId])

\* db.badges.upsertManyManagers: replaces the badge's manager set
upsertManyManagers(badgeId, managerIds) ==
  badgeManagers' = [badgeManagers EXCEPT ![badgeId] = Range(managerIds)]

\* db.badges.upsertManyOwners: replaces the badge's owners; the repeats of an
\* id are its stored count
upsertManyOwners(badgeId, ownerIds) ==
  badgeOwners' =
    [badgeOwners EXCEPT
       ![badgeId] = [u \in UserIds |->
                      Cardinality({k \in DOMAIN ownerIds : ownerIds[k] = u})]]

\* a badge starts with no manager and no owner
ActionInit ==
  /\ badgeManagers = [b \in BadgeIds |-> {}]
  /\ badgeOwners = [b \in BadgeIds |-> [u \in UserIds |-> 0]]
  /\ request = FreeRequest
  /\ dataManagers = <<>> /\ managers = <<>>
  /\ dataOwners = <<>> /\ owners = <<>>
  /\ ownersRender = "ok" /\ ownerIdsInput = <<>>
  /\ TournamentTeam = {} /\ TournamentTeamMember = {} /\ createTeamCalls = <<>>
  /\ sending = FALSE /\ handler = <<>> /\ teamsData = "none"
  /\ serverTeams = "none" /\ effects = <<>>

\* a POST to the route arrives
ReceiveRequest(formAction, managerIdsField, ownerIdsField, idParam, session) ==
  /\ request.pc = "free"
  /\ request' = [FreeRequest EXCEPT
                   !.pc = "received", !._action = formAction,
                   !.managerIds = managerIdsField, !.ownerIds = ownerIdsField,
                   !.idParam = idParam, !.session = session]
  /\ UNCHANGED <<badgeManagers, badgeOwners,
                 managersVars, ownersVars, teamVars, headerVars>>

\* edit.tsx:32-36: parseRequestFormData answers 400 when the schema rejects
\* the form; an unparseable params["id"] throws
ParseRequest ==
  /\ request.pc = "received"
  /\ LET data == editBadgeActionSchema(request)
         badgeId == ParseBadgeId(request.idParam)
     IN request' =
          IF ~data.ok
          THEN [request EXCEPT !.pc = "done", !.response = "400"]
          ELSE IF badgeId = 0
          THEN [request EXCEPT !.pc = "done", !.response = "500", !.data = data]
          ELSE [request EXCEPT !.pc = "parsed", !.data = data, !.badgeId = badgeId]
  /\ UNCHANGED <<badgeManagers, badgeOwners,
                 managersVars, ownersVars, teamVars, headerVars>>

\* edit.tsx:37: requireUser throws when the request has no logged-in user
RequireUser ==
  /\ request.pc = "parsed"
  /\ request' =
       IF request.session = NoUser
       THEN [request EXCEPT !.pc = "done", !.response = "401"]
       ELSE [request EXCEPT !.pc = "authenticated"]
  /\ UNCHANGED <<badgeManagers, badgeOwners,
                 managersVars, ownersVars, teamVars, headerVars>>

\* edit.tsx:39-62: the switch; validate(false) throws a 401 response
Dispatch ==
  /\ request.pc = "authenticated"
  /\ LET user == request.session
         badgeId == request.badgeId
         data == request.data
     IN CASE data._action = "MANAGERS" ->
               IF ManagersValidated(user)
               THEN /\ upsertManyManagers(badgeId, data.managerIds)
                    /\ request' =
                         [request EXCEPT
                            !.pc = "done", !.response = "200",
                            !.call = [op |-> "upsertManyManagers",
                                      badgeId |-> badgeId,
                                      ids |-> data.managerIds]]
                    /\ UNCHANGED badgeOwners
               ELSE /\ request' = [request EXCEPT !.pc = "done", !.response = "401"]
                    /\ UNCHANGED <<badgeManagers, badgeOwners>>
          [] data._action = "OWNERS" ->
               IF OwnersValidated(user, badgeId)
               THEN /\ upsertManyOwners(badgeId, data.ownerIds)
                    /\ request' =
                         [request EXCEPT
                            !.pc = "done", !.response = "200",
                            !.call = [op |-> "upsertManyOwners",
                                      badgeId |-> badgeId,
                                      ids |-> data.ownerIds]]
                    /\ UNCHANGED badgeManagers
               ELSE /\ request' = [request EXCEPT !.pc = "done", !.response = "401"]
                    /\ UNCHANGED <<badgeManagers, badgeOwners>>
          [] OTHER ->
               /\ request' = [request EXCEPT !.pc = "done", !.response = "500"]
               /\ UNCHANGED <<badgeManagers, badgeOwners>>
  /\ UNCHANGED <<managersVars, ownersVars, teamVars, headerVars>>

\* the response is sent; the server takes the next request
Respond ==
  /\ request.pc = "done"
  /\ request' = FreeRequest
  /\ UNCHANGED <<badgeManagers, badgeOwners,
                 managersVars, ownersVars, teamVars, headerVars>>

ActionNext ==
  \/ \E formAction \in FormActions, managerIdsField \in ManagerIdsFields,
        ownerIdsField \in OwnerIdsFields, idParam \in IdParams,
        session \in {NoUser} \cup UserIds :
        ReceiveRequest(formAction, managerIdsField, ownerIdsField, idParam, session)
  \/ ParseRequest
  \/ RequireUser
  \/ Dispatch
  \/ Respond

----------------------------------------------------------------------------
(* createTeam, createTeam.server.ts:1-43 *)

\* calls of createTeam made in one run
MaxCalls == 3

CalendarEventIds == {1, 2}
OwnerIds == {1, 2}
\* the strings nanoid(INVITE_CODE_LENGTH) is drawn from
InviteCodes == {"aaaa", "bbbb"}
\* the statement of the call that throws (a constraint failure, a full
\* disk, ...), if any
Failures == {"none", "createTeamStm", "createMemberStm"}

\* the id the engine gives an inserted team row: one more than the largest
\* id of the table
NextTeamId(teams) ==
  IF teams = {} THEN 1
  ELSE 1 + (CHOOSE n \in {t.id : t \in teams} : \A t \in teams : t.id <= n)

\* createTeamStm.get(...), createTeam.server.ts:6-14 and 36-39: the row
\* inserted, returned by "returning *"
createTeamStm(db, calendarEventId, inviteCode) ==
  LET team == [id |-> NextTeamId(db.teams),
               calendarEventId |-> calendarEventId,
               inviteCode |-> inviteCode]
  IN [db |-> [db EXCEPT !.teams = @ \cup {team}], team |-> team]

\* createMemberStm.run(...), createTeam.server.ts:16-26 and 41
createMemberStm(db, tournamentTeamId, userId) ==
  [db EXCEPT !.members =
     @ \cup {[tournamentTeamId |-> tournamentTeamId,
              userId |-> userId, isOwner |-> 1]}]

\* the function handed to sql.transaction, createTeam.server.ts:29-42: the
\* database as the statements left it, and whether one of them threw
CreateTeamBody(db, calendarEventId, ownerId, inviteCode, failure) ==
  IF failure = "createTeamStm"
  THEN [db |-> db, threw |-> TRUE, teamId |-> 0]
  ELSE LET inserted == createTeamStm(db, calendarEventId, inviteCode)
       IN IF failure = "createMemberStm"
          THEN [db |-> inserted.db, threw |-> TRUE, teamId |-> 0]
          ELSE [db |-> createMemberStm(inserted.db, inserted.team.id, ownerId),
                threw |-> FALSE, teamId |-> inserted.team.id]

\* faulty variant of Transaction: the statements run outside a transaction, each
\* committed as it runs
TransactionNoRollback(before, ran) == ran.db

\* sql.transaction(fn), createTeam.server.ts:28: commits what fn did, or
\* rolls back to the database as it was when fn throws (and rethrows)
Transaction(before, ran) == IF ran.threw THEN before ELSE ran.db

CreateTeamInit ==
  /\ TournamentTeam = {}
  /\ TournamentTeamMember = {}
  /\ createTeamCalls = <<>>
  /\ dataManagers = <<>> /\ managers = <<>>
  /\ dataOwners = <<>> /\ owners = <<>>
  /\ ownersRender = "ok" /\ ownerIdsInput = <<>>
  /\ badgeManagers = <<>> /\ badgeOwners = <<>> /\ request = <<>>
  /\ sending = FALSE /\ handler = <<>> /\ teamsData = "none"
  /\ serverTeams = "none" /\ effects = <<>>

\* one call of createTeam; the function is synchronous, so a call runs from
\* begin to commit or rollback with no other call's statement in between
CreateTeam(calendarEventId, ownerId, inviteCode, failure) ==
  /\ Len(createTeamCalls) < MaxCalls
  /\ LET before == [teams |-> TournamentTeam, members |-> TournamentTeamMember]
         ran == CreateTeamBody(before, calendarEventId, ownerId, inviteCode, failure)
         after == Transaction(before, ran)
     IN /\ TournamentTeam' = after.teams
        /\ TournamentTeamMember' = after.members
        /\ createTeamCalls' =
             Append(createTeamCalls,
                    [calendarEventId |-> calendarEventId, ownerId |-> ownerId,
                     inviteCode |-> inviteCode, failure |-> failure,
                     result |-> IF ran.threw THEN "error" ELSE "ok",
                     teamId |-> ran.teamId])
  /\ UNCHANGED <<managersVars, ownersVars, actionVars, headerVars>>

CreateTeamNext ==
  \E calendarEventId \in CalendarEventIds, ownerId \in OwnerIds,
     inviteCode \in InviteCodes, failure \in Failures :
     CreateTeam(calendarEventId, ownerId, inviteCode, failure)

----------------------------------------------------------------------------
(* RegisterHeader, createTeam.server.ts:65-190 *)

\* handler runs that end in a success toast, per run of the model
MaxSuccesses == 2

\* the user's own team in a team list: "none", or the user's role in it
Roles == {"none", "owner", "member"}

NoHandler == [name |-> "", pc |-> "idle", outcome |-> ""]

\* the text each handler toasts
ToastText(name) ==
  CASE name = "createNewTeam" -> "Team created"
    [] name = "deleteTeam" -> "Registration canceled"
    [] name = "leaveTeam" -> "Team left"

\* the registration a successful request leaves on the server
AfterRequest(name) == IF name = "createNewTeam" THEN "owner" ELSE "none"

\* the button each role renders, createTeam.server.ts:117-185
ButtonShown(name) ==
  CASE name = "createNewTeam" -> teamsData = "none"
    [] name = "deleteTeam" -> teamsData = "owner"
    [] name = "leaveTeam" -> teamsData = "member"

\* faulty variant of AfterSendData: mutate() is called before success is tested
AfterSendDataMutateFirst(name, success) ==
  IF ~success THEN effects \o <<"mutate">>
  ELSE effects \o <<"mutate", ToastText(name)>>

\* the calls made after `if (!success) return`, in order:
\* createTeam.server.ts:76-80, 88-92, 100-104
AfterSendData(name, success) ==
  IF ~success THEN effects
  ELSE effects \o <<"mutate", ToastText(name)>>

RegisterHeaderInit ==
  /\ sending = FALSE
  /\ handler = NoHandler
  /\ teamsData \in Roles
  /\ serverTeams = teamsData
  /\ effects = <<>>
  /\ dataManagers = <<>> /\ managers = <<>>
  /\ dataOwners = <<>> /\ owners = <<>>
  /\ ownersRender = "ok" /\ ownerIdsInput = <<>>
  /\ badgeManagers = <<>> /\ badgeOwners = <<>> /\ request = <<>>
  /\ TournamentTeam = {} /\ TournamentTeamMember = {} /\ createTeamCalls = <<>>

\* a button can be clicked when it is shown for the user's role and is not
\* loading (isLoading={sending})
Clickable(name) ==
  /\ handler.pc # "awaiting"
  /\ ~sending
  /\ ButtonShown(name)
  /\ Len(effects) < 2 * MaxSuccesses

\* createNewTeam up to its await, createTeam.server.ts:72-74
createNewTeam ==
  /\ Clickable("createNewTeam")
  /\ sending' = TRUE
  /\ handler' = [name |-> "createNewTeam", pc |-> "awaiting", outcome |-> ""]
  /\ UNCHANGED <<teamsData, serverTeams, effects,
                 managersVars, ownersVars, actionVars, teamVars>>

\* deleteTeam up to its await, createTeam.server.ts:83-86; it returns at
\* once when window.confirm is declined
deleteTeam(confirmed) ==
  /\ Clickable("deleteTeam")
  /\ IF ~confirmed
     THEN /\ handler' = [name |-> "deleteTeam", pc |-> "finished",
                         outcome |-> "declined"]
          /\ UNCHANGED sending
     ELSE /\ sending' = TRUE
          /\ handler' = [name |-> "deleteTeam", pc |-> "awaiting", outcome |-> ""]
  /\ UNCHANGED <<teamsData, serverTeams, effects,
                 managersVars, ownersVars, actionVars, teamVars>>

\* leaveTeam up to its await, createTeam.server.ts:95-98
leaveTeam(confirmed) ==
  /\ Clickable("leaveTeam")
  /\ IF ~confirmed
     THEN /\ handler' = [name |-> "leaveTeam", pc |-> "finished",
                         outcome |-> "declined"]
          /\ UNCHANGED sending
     ELSE /\ sending' = TRUE
          /\ handler' = [name |-> "leaveTeam", pc |-> "awaiting", outcome |-> ""]
  /\ UNCHANGED <<teamsData, serverTeams, effects,
                 managersVars, ownersVars, actionVars, teamVars>>

\* sendData resolves and the handler runs to its end:
\* createTeam.server.ts:75-80, 87-92, 99-104
SendDataResolves(success) ==
  /\ handler.pc = "awaiting"
  /\ sending' = FALSE
  /\ effects' = AfterSendData(handler.name, success)
  /\ handler' = [handler EXCEPT
                   !.pc = "finished",
                   !.outcome = IF success THEN "success" ELSE "failed"]
  /\ serverTeams' = IF success THEN AfterRequest(handler.name) ELSE serverTeams
  /\ UNCHANGED <<teamsData, managersVars, ownersVars, actionVars, teamVars>>

\* useLadderTeams refetches the team list (after mutate(), on focus, ...)
Revalidate ==
  /\ teamsData # serverTeams
  /\ teamsData' = serverTeams
  /\ UNCHANGED <<sending, handler, serverTeams, effects,
                 managersVars, ownersVars, actionVars, teamVars>>

\* the registration changes outside this component (the user joins a team
\* with an invite code, the owner deletes the team, ...)
RegistrationChanges(role) ==
  /\ handler.pc # "awaiting"
  /\ role # serverTeams
  /\ serverTeams' = role
  /\ UNCHANGED <<sending, handler, teamsData, effects,
                 managersVars, ownersVars, actionVars, teamVars>>

RegisterHeaderNext ==
  \/ createNewTeam
  \/ \E confirmed \in BOOLEAN : deleteTeam(confirmed)
  \/ \E confirmed \in BOOLEAN : leaveTeam(confirmed)
  \/ \E success \in BOOLEAN : SendDataResolves(success)
  \/ Revalidate
  \/ \E role \in Roles : RegistrationChanges(role)

----------------------------------------------------------------------------
(* Specifications *)

SpecManagers == ManagersInit /\ [][ManagersNext]_vars

SpecOwners == OwnersInit /\ [][OwnersNext]_vars

SpecAction == ActionInit /\ [][ActionNext]_vars

SpecCreateTeam == CreateTeamInit /\ [][CreateTeamNext]_vars

SpecRegisterHeader == RegisterHeaderInit /\ [][RegisterHeaderNext]_vars

----------------------------------------------------------------------------
(* Properties of the Managers editor *)

ManagerIdSet == Range(managers)
OriginalManagerIdSet == Range(dataManagers)
SymmetricDifference(A, B) == (A \ B) \cup (B \ A)
ManagersChanges == ManagersAmountOfChanges(managers, dataManagers)

\* in every state the count is the size of the symmetric difference
ManagersCountIsSymmetricDifference ==
  ManagersChanges =
    Cardinality(SymmetricDifference(ManagerIdSet, OriginalManagerIdSet))

\* an edit that reaches W = O ends at 0; adding an id that is in neither W
\* nor O, and removing an id of O, each raise the count by exactly 1
ManagersEditStep ==
  /\ managers' = dataManagers => ManagersChanges' = 0
  /\ \A u \in UserIds :
       /\ (u \notin ManagerIdSet /\ u \notin OriginalManagerIdSet
            /\ managers' = Append(managers, u))
          => ManagersChanges' = ManagersChanges + 1
       /\ (u \in ManagerIdSet /\ u \in OriginalManagerIdSet
            /\ ManagerIdSet' = ManagerIdSet \ {u})
          => ManagersChanges' = ManagersChanges + 1

\* C1: for every original manager list O and every working list W the
\* add-manager and delete-manager edits reach, the change count equals
\* |W \ O| + |O \ W|; it is 0 when W = O, adding an id new to the badge
\* (in neither list) raises it by exactly 1 and removing an original
\* manager raises it by exactly 1.
C1_ManagersChangeCount ==
  /\ []ManagersCountIsSymmetricDifference
  /\ [](managers = dataManagers => ManagersChanges = 0)
  /\ [][ManagersEditStep]_vars

\* C1 witness: one original manager removed and one new manager added
\* (count 2), the spec's {A, B} -> {B, C} scenario.
C1_Witness ==
  /\ ManagersChanges = 2
  /\ OriginalManagerIdSet \ ManagerIdSet # {}
  /\ ManagerIdSet \ OriginalManagerIdSet # {}
  /\ ManagerIdSet \cap OriginalManagerIdSet # {}

----------------------------------------------------------------------------
(* Properties of the Owners editor *)

\* the entries of ws with no entry of os of the same id, or with one of a
\* different count
ChangedEntries(ws, os) ==
  {i \in DOMAIN ws :
     \/ \A j \in DOMAIN os : os[j].id # ws[i].id
     \/ \E j \in DOMAIN os : os[j].id = ws[i].id /\ os[j].count # ws[i].count}

\* ws without its k-th entry
WithoutEntry(ws, k) ==
  [i \in 1..(Len(ws) - 1) |-> IF i < k THEN ws[i] ELSE ws[i + 1]]

OwnersChanges == OwnersAmountOfChanges(owners, dataOwners)

\* the count is the number of changed entries of W, also for a W that lacks
\* entries of O: an entry that exists only in O adds nothing
OwnersCountIsChangedEntries ==
  /\ OwnersChanges = Cardinality(ChangedEntries(owners, dataOwners))
  /\ \A k \in DOMAIN owners :
       LET ws == WithoutEntry(owners, k)
       IN /\ OwnersAmountOfChanges(ws, dataOwners)
               = Cardinality(ChangedEntries(ws, dataOwners))
          /\ k \notin ChangedEntries(owners, dataOwners)
               => OwnersAmountOfChanges(ws, dataOwners) = OwnersChanges

\* from W identical to O, a count edit to a different value gives 1
OwnersFirstCountEdit ==
  (/\ owners = dataOwners /\ ownersRender = "ok" /\ ownersRender' = "ok"
   /\ Len(owners') = Len(owners) /\ owners' # owners)
    => OwnersAmountOfChanges(owners', dataOwners) = OwnersChanges + 1

\* C2: the Owners change count is the number of entries of the working list
\* whose id the original list lacks or holds with a different count; entries
\* only in the original list are not counted; from W = O a count edit by any
\* nonzero amount raises the count by exactly 1.
C2_OwnersChangeCount ==
  /\ []OwnersCountIsChangedEntries
  /\ [](owners = dataOwners => OwnersChanges = 0)
  /\ [][OwnersFirstCountEdit]_vars

\* C2 witness: one original entry's count was changed by more than 1 (to
\* the maximum), the other original entry is untouched: count 1.
C2_Witness ==
  /\ Len(dataOwners) = 2 /\ Len(owners) = 2
  /\ owners[1].count = MaxCount /\ dataOwners[1].count = 1
  /\ owners[2] = dataOwners[2]
  /\ OwnersChanges = 1

\* number of positions of the flat list s holding id
Occurrences(s, id) == Cardinality({k \in DOMAIN s : s[k] = id})

\* the count the pair list gives id (0 when it has no pair for id)
CountOf(ows, id) ==
  IF \E i \in DOMAIN ows : ows[i].id = id
  THEN ows[CHOOSE i \in DOMAIN ows : ows[i].id = id].count
  ELSE 0

RECURSIVE CountsBefore(_, _)
\* sum of the counts of the first n pairs
CountsBefore(ows, n) ==
  IF n = 0 THEN 0 ELSE CountsBefore(ows, n - 1) + ows[n].count

CountsInRange(ows) == \A i \in DOMAIN ows : ows[i].count \in 0..MaxCount

\* C3: for pairs with unique ids and counts in 0..100 the encoder emits, in
\* input order, exactly count copies of each id (nothing for count 0), and
\* counting the repeats of each id in the flat list gives back the count of
\* each pair (0, i.e. absence, for a pair of count 0).
C3_CodecRoundTrip ==
  (ownersRender = "ok" /\ CountsInRange(owners)) =>
    /\ Len(ownerIdsInput) = CountsBefore(owners, Len(owners))
    /\ \A i \in DOMAIN owners :
         \A k \in (CountsBefore(owners, i - 1) + 1)..CountsBefore(owners, i) :
           ownerIdsInput[k] = owners[i].id
    /\ \A id \in UserIds :
         Occurrences(ownerIdsInput, id) = CountOf(owners, id)

\* C3 witness: a list with a pair of count 2, a pair of count 0 and a
\* pair of count 100 has been encoded.
C3_Witness ==
  /\ ownersRender = "ok"
  /\ Len(owners) = 3
  /\ owners[1].count = 2 /\ owners[2].count = 0 /\ owners[3].count = MaxCount
  /\ Len(ownerIdsInput) = MaxCount + 2

\* the owner multiset the OWNERS submit would send equals the original one
SubmittedEqualsOriginal ==
  \A id \in UserIds : Occurrences(ownerIdsInput, id) = CountOf(dataOwners, id)

\* C9: the OWNERS submit button is enabled exactly when the owner multiset
\* that would be submitted differs from the original one.
C9_SubmitEnabledIffPayloadDiffers ==
  ownersRender = "ok" => (~OwnersSubmitDisabled <=> ~SubmittedEqualsOriginal)

----------------------------------------------------------------------------
(* Properties of the edit-badge action *)

WriteCalled == request.call.op # "none"

IsMalformed(field) == field.kind = "malformed"
HasDuplicate(field) == field.kind = "array" /\ ~noDuplicates(field.value)
UnknownAction == request._action \notin {"MANAGERS", "OWNERS"}

\* the request is one the claim names, whatever its _action: some field is
\* malformed JSON, managerIds repeats an id, or _action is unknown
NamedAsRejected ==
  /\ request.pc # "free"
  /\ \/ IsMalformed(request.managerIds)
     \/ IsMalformed(request.ownerIds)
     \/ HasDuplicate(request.managerIds)
     \/ UnknownAction

\* the same, for the field the request's _action reads
RejectedByItsAction ==
  /\ request.pc # "free"
  /\ \/ /\ request._action = "MANAGERS"
        /\ IsMalformed(request.managerIds) \/ HasDuplicate(request.managerIds)
     \/ /\ request._action = "OWNERS"
        /\ IsMalformed(request.ownerIds)
     \/ UnknownAction

\* C4 as stated: no write for any request with malformed JSON in its
\* payload, with a duplicate in managerIds, or with an unknown _action.
C4_Original_NoWriteForNamedRequests == NamedAsRejected => ~WriteCalled

\* C4 as amended: a MANAGERS request whose managerIds is malformed JSON or
\* repeats an id, an OWNERS request whose ownerIds is malformed JSON, and a
\* request whose _action is neither, gets a 400 response from the parse,
\* never reaches the switch, makes no upsert call and leaves the stored
\* managers and owners as they were.
C4_NoWriteForRejectedRequests ==
  /\ [](RejectedByItsAction =>
          /\ ~WriteCalled
          /\ request.pc \in {"received", "done"}
          /\ request.pc = "done" => request.response = "400")
  /\ [][RejectedByItsAction => UNCHANGED <<badgeManagers, badgeOwners>>]_vars

\* C4 witness: an admin's MANAGERS request with a repeated manager id was
\* answered 400 without a write.
C4_Witness ==
  /\ request.pc = "done" /\ request.response = "400"
  /\ request._action = "MANAGERS" /\ HasDuplicate(request.managerIds)
  /\ request.session \in Admins /\ request.idParam = "1"
  /\ ~WriteCalled

\* the step calls upsertManyManagers / upsertManyOwners
CallsUpsertManagers ==
  request.call.op = "none" /\ request'.call.op = "upsertManyManagers"
CallsUpsertOwners ==
  request.call.op = "none" /\ request'.call.op = "upsertManyOwners"

\* a write happens only in a step whose capability check passed on the
\* store as it is in that step; a failed check aborts with nothing written
WriteOnlyWhenCapable ==
  /\ CallsUpsertManagers =>
       /\ request.pc = "authenticated"
       /\ canEditBadgeManagers(request.session)
       /\ request'.call.badgeId = request.badgeId
  /\ CallsUpsertOwners =>
       /\ request.pc = "authenticated"
       /\ canEditBadgeOwners(request.session, badgeManagers[request.badgeId])
       /\ request'.call.badgeId = request.badgeId
       /\ badgeManagers' = badgeManagers
  /\ <<badgeManagers, badgeOwners>>' # <<badgeManagers, badgeOwners>> =>
       CallsUpsertManagers \/ CallsUpsertOwners
  /\ (/\ request.pc = "authenticated"
      /\ \/ /\ request.data._action = "MANAGERS"
            /\ ~canEditBadgeManagers(request.session)
         \/ /\ request.data._action = "OWNERS"
            /\ ~canEditBadgeOwners(request.session,
                                   badgeManagers[request.badgeId]))
     => /\ request'.pc = "done" /\ request'.response = "401"
        /\ request'.call.op = "none"
        /\ UNCHANGED <<badgeManagers, badgeOwners>>

\* C5: upsertManyManagers is called only if canEditBadgeManagers(user)
\* holds, upsertManyOwners only if canEditBadgeOwners holds for the user and
\* the managers stored for that badge when the request is dispatched; when
\* the predicate is false the request aborts and the store is unchanged.
C5_WriteOnlyAfterCapabilityCheck == [][WriteOnlyWhenCapable]_vars

\* C5 witness: a user who is no admin but a stored manager of the badge has
\* had an OWNERS write accepted.
C5_Witness ==
  /\ request.call.op = "upsertManyOwners"
  /\ request.session \notin Admins
  /\ request.session \in badgeManagers[request.call.badgeId]

\* C8 (action part): no id reaches upsertManyOwners repeated more than 100
\* times.
C8_OwnerCountAtMostMax ==
  request.call.op = "upsertManyOwners" =>
    \A u \in UserIds : Occurrences(request.call.ids, u) <= MaxCount
----------------------------------------------------------------------------
(* Properties of createTeam *)

OwnerRows(teamId) ==
  {m \in TournamentTeamMember : m.tournamentTeamId = teamId /\ m.isOwner = 1}

\* every team row has exactly one owner row and every owner row has its team
TeamIffOwnerMember ==
  /\ \A t \in TournamentTeam : Cardinality(OwnerRows(t.id)) = 1
  /\ \A m \in TournamentTeamMember :
       \E t \in TournamentTeam : t.id = m.tournamentTeamId

\* a call in which a statement throws changes no table and reports one
\* error; a call in which none throws adds one team and its owner row
CallIsAllOrNothing ==
  Len(createTeamCalls') = Len(createTeamCalls) + 1 =>
    LET call == createTeamCalls'[Len(createTeamCalls')]
    IN IF call.failure # "none"
       THEN /\ call.result = "error"
            /\ UNCHANGED <<TournamentTeam, TournamentTeamMember>>
       ELSE /\ call.result = "ok"
            /\ \E t \in TournamentTeam' \ TournamentTeam :
                 /\ TournamentTeam' = TournamentTeam \cup {t}
                 /\ t.id = call.teamId
                 /\ t.calendarEventId = call.calendarEventId
                 /\ t.inviteCode = call.inviteCode
                 /\ TournamentTeamMember' = TournamentTeamMember \cup
                      {[tournamentTeamId |-> t.id, userId |-> call.ownerId,
                        isOwner |-> 1]}
                 /\ Cardinality(TournamentTeamMember') =
                      Cardinality(TournamentTeamMember) + 1

\* C6: createTeam is atomic: in every store state a team row exists iff its
\* owner's member row (isOwner = 1, tournamentTeamId = the team's id)
\* exists; when the member insert fails after the team insert the team row
\* is rolled back and the caller gets one error.
C6_CreateTeamAtomic ==
  /\ []TeamIffOwnerMember
  /\ [][CallIsAllOrNothing]_vars

\* C6 witness: a call whose member insert failed came after a successful
\* call, and the store holds only the successful call's two rows.
C6_Witness ==
  /\ Len(createTeamCalls) = 2
  /\ createTeamCalls[1].result = "ok"
  /\ createTeamCalls[2].failure = "createMemberStm"
  /\ createTeamCalls[2].result = "error"
  /\ Cardinality(TournamentTeam) = 1
  /\ Cardinality(TournamentTeamMember) = 1

TeamOfCall(call) == CHOOSE t \in TournamentTeam : t.id = call.teamId

\* C7: two createTeam calls for the same calendar event and different
\* owners, both run to the end, leave two teams with distinct invite codes,
\* each with exactly one membership row with isOwner set, in either order
\* of the calls.
C7_TwoCallsDistinctInviteCodes ==
  \A i, j \in DOMAIN createTeamCalls :
    (/\ i < j
     /\ createTeamCalls[i].failure = "none" /\ createTeamCalls[j].failure = "none"
     /\ createTeamCalls[i].calendarEventId = createTeamCalls[j].calendarEventId
     /\ createTeamCalls[i].ownerId # createTeamCalls[j].ownerId)
    => /\ createTeamCalls[i].result = "ok" /\ createTeamCalls[j].result = "ok"
       /\ createTeamCalls[i].teamId # createTeamCalls[j].teamId
       /\ Cardinality(OwnerRows(createTeamCalls[i].teamId)) = 1
       /\ Cardinality(OwnerRows(createTeamCalls[j].teamId)) = 1
       /\ TeamOfCall(createTeamCalls[i]).inviteCode
            # TeamOfCall(createTeamCalls[j]).inviteCode

----------------------------------------------------------------------------
(* Properties of RegisterHeader *)

\* mutate() and the toast come in pairs, refresh first
EffectsArePairs ==
  /\ Len(effects) % 2 = 0
  /\ \A k \in DOMAIN effects :
       IF k % 2 = 1 THEN effects[k] = "mutate" ELSE effects[k] # "mutate"

\* `sending` is true exactly while a request is in flight
SendingIffInFlight ==
  /\ sending <=> handler.pc = "awaiting"
  /\ handler.pc = "finished" => ~sending

\* only a step that ends a successful request refreshes and toasts, with
\* the handler's own text; no other step adds an effect
EffectsOnlyAfterSuccess ==
  /\ effects' # effects =>
       /\ handler.pc = "awaiting"
       /\ handler'.outcome = "success"
       /\ effects' = effects \o <<"mutate", ToastText(handler.name)>>
  /\ (handler' # handler /\ handler'.outcome \in {"failed", "declined"}) =>
       effects' = effects
  /\ (handler.pc = "awaiting" /\ handler'.outcome = "success") =>
       effects' # effects

\* C10: for createNewTeam, deleteTeam and leaveTeam, `sending` is true
\* exactly while the request is in flight and false once the handler has
\* finished on every path; mutate and the success toast happen only after a
\* request that returned success, mutate first, never after a failed one.
C10_SendingAndEffects ==
  /\ []SendingIffInFlight
  /\ []EffectsArePairs
  /\ [][EffectsOnlyAfterSuccess]_vars

\* C10 witness: a failed leaveTeam request has finished after an earlier
\* handler's success was refreshed and toasted.
C10_Witness ==
  /\ handler = [name |-> "leaveTeam", pc |-> "finished", outcome |-> "failed"]
  /\ ~sending
  /\ Len(effects) = 2

====
